---- MODULE Spec2Model ----
\* Model of the Sense application's mode controller (sense::StateManager), its
\* LED output layer (sense::LedOutputStateMachine) and the threshold
\* adjustment it owns, translated from modules/state_manager/state_manager.h,
\* and of the blink loop of sense::Blinky, translated from
\* modules/blinky/blinky.cc.
\*
\* The C++ methods are modelled as operators over records: a record `l` is a
\* LedOutputStateMachine (with the PolychromeLed it drives), a record `m` is a
\* StateManager. An action applies one whole handler to the current state.
EXTENDS Integers, Sequences, FiniteSets, TLC

VARIABLES
    state_,              \* StateManager::state_ : the active mode (CommonBaseUnion)
    led_,                \* StateManager::led_ : LedOutputStateMachine + the LED it drives
    demo_mode_timer_,    \* StateManager::demo_mode_timer_ : [armed, left]
    alarmed_,            \* StateManager::alarmed_
    current_threshold_,  \* StateManager::current_threshold_ (uint16_t)
    published,           \* events the controller published while handling the last event
    ops,                 \* the calls made, in order, while handling the last event
    step,                \* the event (or timer tick) of the last step
    x_run,               \* modes that were active at each of the latest consecutive X releases
    led_called,          \* output layer: which of its methods have been called so far
    last_override,       \* output layer: arguments of the most recent Override()
    last_written,        \* output layer: most recent SetColor() / SetBrightness() arguments
    thr_calls,           \* threshold controller: the increment/decrement calls made so far
    armed_for,           \* seconds the countdown has run since it was last armed
    blinky               \* sense::Blinky: its blink coroutine, lock_ and monochrome LED

vars == <<state_, led_, demo_mode_timer_, alarmed_, current_threshold_,
          published, ops, step, x_run, led_called, last_override, last_written,
          thr_calls, armed_for, blinky>>

----------------------------------------------------------------------------
\* Program constants

kDefaultBrightness == 220

kThresholdIncrementDouble == 128 * 2

kThresholdIncrement == 128

kMaxThresholdScore == 1024 - 1

kMaxThreshold == 768

\* kDemoModeTimeout, in seconds
kDemoModeTimeout == 30

\* AirQualityThresholdMode::kThresholdModeTimeout, in seconds
kThresholdModeTimeout == 3

\* AirSensor::kDefaultTheshold ("default mid-range")
kDefaultTheshold == 384

\* uint16_t arithmetic
U16(n) == n % 65536

Modes == {"AirQualityMode", "AirQualityThresholdMode", "AirQualityAlarmMode",
          "MorseReadout", "ProximityDemo", "MorseCodeDemo", "ColorRotationDemo"}

\* The modes derived from TimeoutState
TimeoutModes == {"AirQualityThresholdMode", "ProximityDemo", "MorseCodeDemo",
                 "ColorRotationDemo"}

DemoModes == {"ProximityDemo", "MorseCodeDemo", "ColorRotationDemo"}

\* LedValue(0, 255, 255), the colour MorseCodeDemo shows
Cyan == <<0, 255, 255>>

\* LedValue payloads the producers send
EventColors == {<<255, 0, 0>>, <<0, 0, 255>>}

\* Colours and brightnesses handed to the output layer when it is driven directly
LedColors == {<<0, 0, 0>>, <<255, 0, 0>>, Cyan}

LedBrightnesses == {0, 64, kDefaultBrightness}

----------------------------------------------------------------------------
\* LedOutputStateMachine

\* Constructor: passthrough, the given brightness, colour 0; the LED itself
\* (led_color, led_brightness) shows whatever it showed before.
LedOutputStateMachine(brightness, shown_color, shown_brightness) ==
    [state_ |-> "kPassthrough", brightness_ |-> brightness,
     red_ |-> 0, green_ |-> 0, blue_ |-> 0,
     led_color |-> shown_color, led_brightness |-> shown_brightness]

UpdateLedAlways(l) ==
    [l EXCEPT !.led_color = <<l.red_, l.green_, l.blue_>>,
              !.led_brightness = l.brightness_]

UpdateLed(l) ==
    IF l.state_ = "kPassthrough"
    THEN [l EXCEPT !.led_color = <<l.red_, l.green_, l.blue_>>,
                   !.led_brightness = l.brightness_]
    ELSE l

Override(l, color, brightness) ==
    [l EXCEPT !.state_ = "kOverride", !.led_color = color,
              !.led_brightness = brightness]

EndOverrideNoUpdate(l) == [l EXCEPT !.state_ = "kPassthrough"]

EndOverride(l) == UpdateLed([l EXCEPT !.state_ = "kPassthrough"])

SetColorNoUpdate(l, value) ==
    [l EXCEPT !.red_ = value[1], !.green_ = value[2], !.blue_ = value[3]]

SetColor(l, value) ==
    UpdateLed([l EXCEPT !.red_ = value[1], !.green_ = value[2], !.blue_ = value[3]])

SetBrightness(l, brightness) == UpdateLed([l EXCEPT !.brightness_ = brightness])

StoredColor(l) == <<l.red_, l.green_, l.blue_>>

----------------------------------------------------------------------------
\* Events

\* An event of the bus: its kind and its payload (flag: alarm / pressed /
\* turn_on / proximity; finished: message_finished; value: the RGB triple).
Ev(kind, flag, finished, value) ==
    [kind |-> kind, flag |-> flag, finished |-> finished, value |-> value]

NoColor == <<0, 0, 0>>

ButtonKinds == {"ButtonA", "ButtonB", "ButtonX", "ButtonY"}

LedValueKinds == {"LedValueColorRotationMode", "LedValueProximityMode",
                  "LedValueAirQualityMode"}

\* The alternatives of the Event variant the bus carries
EventAlternatives ==
    {"AlarmStateChange", "ButtonA", "ButtonB", "ButtonX", "ButtonY",
     "LedValueColorRotationMode", "LedValueMorseCodeMode",
     "LedValueProximityMode", "LedValueAirQualityMode",
     "ProximityStateChange", "ProximitySample", "AirQuality"}

\* The events other components publish to the controller
ExternalEvents ==
    {Ev("AlarmStateChange", a, FALSE, NoColor) : a \in BOOLEAN}
    \cup {Ev(k, p, FALSE, NoColor) : k \in ButtonKinds, p \in BOOLEAN}
    \cup {Ev(k, FALSE, FALSE, c) : k \in LedValueKinds, c \in EventColors}
    \cup {Ev("MorseCodeValue", on, fin, NoColor) : on \in BOOLEAN, fin \in BOOLEAN}
    \cup {Ev("ProximityStateChange", p, FALSE, NoColor) : p \in BOOLEAN}
    \cup {Ev("ProximitySample", FALSE, FALSE, NoColor)}

DemoModeTimerExpired == Ev("DemoModeTimerExpired", FALSE, FALSE, NoColor)

TickStep == Ev("Tick", FALSE, FALSE, NoColor)

NoStep == Ev("none", FALSE, FALSE, NoColor)

\* The events the controller itself publishes
AlarmSilenceRequest(seconds) ==
    [kind |-> "AlarmSilenceRequest", message |-> "", n |-> seconds]

MorseEncodeRequest(message, repeat) ==
    [kind |-> "MorseEncodeRequest", message |-> message, n |-> repeat]

----------------------------------------------------------------------------
\* StateManager: timer, bus and mode construction

Op(m, name, arg) == [m EXCEPT !.ops = Append(@, <<name, arg>>)]

\* pw::chrono::SystemTimer::InvokeAfter: (re)starts the one-shot countdown
InvokeAfter(m, timeout) ==
    Op([m EXCEPT !.demo_mode_timer_ = [armed |-> TRUE, left |-> timeout]],
       "InvokeAfter", "")

\* pw::chrono::SystemTimer::Cancel
Cancel(m) ==
    Op([m EXCEPT !.demo_mode_timer_ = [armed |-> FALSE, left |-> 0]],
       "Cancel", "")

\* PubSub::Publish: the event is delivered to the subscribers synchronously,
\* before Publish returns. (StateManager::Update, itself a subscriber, ignores
\* the request kinds the controller publishes.)
Publish(m, event) ==
    Op(Op([m EXCEPT !.published = Append(@, event)], "Publish", event.kind),
       "Deliver", event.kind)

\* State::State
StateNoBrightness(m) == m

State(m) ==
    Op([m EXCEPT !.led_ = SetBrightness(@, kDefaultBrightness)],
       "SetBrightness", "")

\* TimeoutState::TimeoutState
TimeoutStateNoArm(m, timeout) == State(m)

TimeoutState(m, timeout) == InvokeAfter(State(m), timeout)

\* StateManager::StartMorseReadout
StartMorseReadout(m, repeat) ==
    Publish(m, MorseEncodeRequest("score", IF repeat THEN 0 ELSE 1))

\* StateManager::DisplayThreshold: re-renders the threshold
DisplayThreshold(m) == Op(m, "DisplayThreshold", "")

\* The constructors of the seven modes
AirQualityMode(m) == State(m)

AirQualityThresholdMode(m) ==
    DisplayThreshold(TimeoutState(m, kThresholdModeTimeout))

AirQualityAlarmMode(m) == StartMorseReadout(State(m), TRUE)

MorseReadout(m) == StartMorseReadout(State(m), FALSE)

ProximityDemo(m) == TimeoutState(m, kDemoModeTimeout)

MorseCodeDemo(m) ==
    LET t == TimeoutState(m, kDemoModeTimeout)
        c == Op([t EXCEPT !.led_ = SetColor(@, Cyan)], "SetColor", "")
    IN  Publish(c, MorseEncodeRequest("PW", 0))

ColorRotationDemo(m) == TimeoutState(m, kDemoModeTimeout)

\* CommonBaseUnion::emplace<StateType>: destroys the current mode, then
\* constructs the new one in the same storage.
Emplace(m, StateType) ==
    LET d == Op(m, "destroy", m.state_)
        c == CASE StateType = "AirQualityMode" -> AirQualityMode(d)
               [] StateType = "AirQualityThresholdMode" -> AirQualityThresholdMode(d)
               [] StateType = "AirQualityAlarmMode" -> AirQualityAlarmMode(d)
               [] StateType = "MorseReadout" -> MorseReadout(d)
               [] StateType = "ProximityDemo" -> ProximityDemo(d)
               [] StateType = "MorseCodeDemo" -> MorseCodeDemo(d)
               [] StateType = "ColorRotationDemo" -> ColorRotationDemo(d)
    IN  Op([c EXCEPT !.state_ = StateType], "emplace", StateType)

\* StateManager::SetState<StateType>
SetStateNoCancel(m, StateType) ==
    Op(Emplace(m, StateType), "LogStateChange", m.state_)

SetState(m, StateType) ==
    Op(Emplace(Cancel(m), StateType), "LogStateChange", m.state_)

----------------------------------------------------------------------------
\* StateManager: threshold adjustment

\* StateManager::IncrementThreshold: +128 clamped to kMaxThreshold, re-render,
\* re-arm the countdown.
IncrementThreshold(m, timeout) ==
    LET sum == U16(m.current_threshold_ + kThresholdIncrement)
        t   == IF sum > kMaxThreshold \/ sum < m.current_threshold_
               THEN kMaxThreshold ELSE sum
    IN  InvokeAfter(DisplayThreshold(
            Op([m EXCEPT !.current_threshold_ = t], "IncrementThreshold", "")),
            timeout)

\* StateManager::DecrementThreshold: -128 clamped to 0, re-render, re-arm.
DecrementThreshold(m, timeout) ==
    LET t == IF m.current_threshold_ < kThresholdIncrement
             THEN 0 ELSE U16(m.current_threshold_ - kThresholdIncrement)
    IN  InvokeAfter(DisplayThreshold(
            Op([m EXCEPT !.current_threshold_ = t], "DecrementThreshold", "")),
            timeout)

----------------------------------------------------------------------------
\* The handlers of State and of the modes that override them

\* State::AlarmStateChanged (no mode overrides it)
AlarmStateChangedNoStore(m, alarm) ==
    IF m.alarmed_ = alarm THEN m
    ELSE IF alarm THEN SetState(m, "AirQualityAlarmMode")
                  ELSE SetState(m, "AirQualityMode")

AlarmStateChangedNoDedup(m, alarm) ==
    LET a == [m EXCEPT !.alarmed_ = alarm]
    IN  IF alarm THEN SetState(a, "AirQualityAlarmMode")
                 ELSE SetState(a, "AirQualityMode")

AlarmStateChanged(m, alarm) ==
    IF m.alarmed_ = alarm THEN m
    ELSE LET a == [m EXCEPT !.alarmed_ = alarm]
         IN  IF alarm THEN SetState(a, "AirQualityAlarmMode")
                      ELSE SetState(a, "AirQualityMode")

\* State::ButtonAReleased / ButtonBReleased / ButtonXReleased / ButtonYReleased
State_ButtonAReleased(m) == SetState(m, "AirQualityThresholdMode")

State_ButtonBReleasedIgnored(m) == m

State_ButtonBReleased(m) == SetState(m, "AirQualityThresholdMode")

State_ButtonXReleased(m) == m

State_ButtonYReleased(m) == m

\* State::*LedValue, State::MorseCodeEdge, State::DemoModeTimerExpired
State_LedValueShown(m, value) ==
    Op([m EXCEPT !.led_ = SetColor(@, value)], "SetColor", "")

State_LedValue(m, value) == m

State_MorseCodeEdge(m, value) == m

State_DemoModeTimerExpired(m) == m

\* TimeoutState
TimeoutState_ButtonYReleased(m) == SetState(m, "MorseReadout")

TimeoutState_DemoModeTimerExpiredIgnored(m) == m

TimeoutState_DemoModeTimerExpired(m) == SetState(m, "AirQualityMode")

\* AirQualityMode
AirQualityMode_ButtonXReleased(m) == SetState(m, "ProximityDemo")

AirQualityMode_ButtonYReleased(m) == SetState(m, "MorseReadout")

AirQualityMode_AirQualityModeLedValue(m, value) ==
    Op([m EXCEPT !.led_ = SetColor(@, value)], "SetColor", "")

\* AirQualityThresholdMode
AirQualityThresholdMode_ButtonAReleasedDefault(m) == State_ButtonAReleased(m)

AirQualityThresholdMode_ButtonAReleased(m) ==
    IncrementThreshold(m, kThresholdModeTimeout)

AirQualityThresholdMode_ButtonBReleased(m) ==
    DecrementThreshold(m, kThresholdModeTimeout)

\* AirQualityAlarmMode
AirQualityAlarmMode_ButtonYReleased(m) == Publish(m, AlarmSilenceRequest(60))

AirQualityAlarmMode_AirQualityModeLedValue(m, value) ==
    Op([m EXCEPT !.led_ = SetColor(@, value)], "SetColor", "")

AirQualityAlarmMode_MorseCodeEdge(m, value) ==
    Op([m EXCEPT !.led_ =
            SetBrightness(@, IF value.flag THEN kDefaultBrightness ELSE 0)],
       "SetBrightness", "")

\* MorseReadout
MorseReadout_ButtonXReleased(m) == SetState(m, "ProximityDemo")

MorseReadout_ButtonYReleased(m) == SetState(m, "AirQualityMode")

MorseReadout_MorseCodeEdge(m, value) ==
    LET b == Op([m EXCEPT !.led_ =
                     SetBrightness(@, IF value.flag THEN kDefaultBrightness ELSE 0)],
                "SetBrightness", "")
    IN  IF value.finished THEN SetState(b, "AirQualityMode") ELSE b

\* ProximityDemo
ProximityDemo_ButtonXReleasedSkip(m) == SetState(m, "ColorRotationDemo")

ProximityDemo_ButtonXReleased(m) == SetState(m, "MorseCodeDemo")

ProximityDemo_ProximityModeLedValue(m, value) ==
    Op([m EXCEPT !.led_ = SetColor(@, value)], "SetColor", "")

\* MorseCodeDemo
MorseCodeDemo_ButtonXReleased(m) == SetState(m, "ColorRotationDemo")

MorseCodeDemo_MorseCodeEdgeFinish(m, value) == MorseReadout_MorseCodeEdge(m, value)

MorseCodeDemo_MorseCodeEdge(m, value) ==
    Op([m EXCEPT !.led_ =
            SetBrightness(@, IF value.flag THEN kDefaultBrightness ELSE 0)],
       "SetBrightness", "")

\* ColorRotationDemo
ColorRotationDemo_ButtonXReleased(m) == SetState(m, "ProximityDemo")

ColorRotationDemo_ColorRotationModeLedValue(m, value) ==
    Op([m EXCEPT !.led_ = SetColor(@, value)], "SetColor", "")

----------------------------------------------------------------------------
\* Virtual dispatch on the active mode: state_.get().Handler(...)

ButtonAReleased(m) ==
    IF m.state_ = "AirQualityThresholdMode"
    THEN AirQualityThresholdMode_ButtonAReleased(m)
    ELSE State_ButtonAReleased(m)

ButtonBReleased(m) ==
    IF m.state_ = "AirQualityThresholdMode"
    THEN AirQualityThresholdMode_ButtonBReleased(m)
    ELSE State_ButtonBReleased(m)

ButtonXReleased(m) ==
    CASE m.state_ = "AirQualityMode" -> AirQualityMode_ButtonXReleased(m)
      [] m.state_ = "MorseReadout" -> MorseReadout_ButtonXReleased(m)
      [] m.state_ = "ProximityDemo" -> ProximityDemo_ButtonXReleased(m)
      [] m.state_ = "MorseCodeDemo" -> MorseCodeDemo_ButtonXReleased(m)
      [] m.state_ = "ColorRotationDemo" -> ColorRotationDemo_ButtonXReleased(m)
      [] OTHER -> State_ButtonXReleased(m)

ButtonYReleased(m) ==
    CASE m.state_ = "AirQualityMode" -> AirQualityMode_ButtonYReleased(m)
      [] m.state_ = "AirQualityAlarmMode" -> AirQualityAlarmMode_ButtonYReleased(m)
      [] m.state_ = "MorseReadout" -> MorseReadout_ButtonYReleased(m)
      [] m.state_ \in TimeoutModes -> TimeoutState_ButtonYReleased(m)
      [] OTHER -> State_ButtonYReleased(m)

ProximityModeLedValue(m, value) ==
    IF m.state_ = "ProximityDemo"
    THEN ProximityDemo_ProximityModeLedValue(m, value)
    ELSE State_LedValue(m, value)

AirQualityModeLedValue(m, value) ==
    CASE m.state_ = "AirQualityMode" -> AirQualityMode_AirQualityModeLedValue(m, value)
      [] m.state_ = "AirQualityAlarmMode" ->
            AirQualityAlarmMode_AirQualityModeLedValue(m, value)
      [] OTHER -> State_LedValue(m, value)

ColorRotationModeLedValue(m, value) ==
    IF m.state_ = "ColorRotationDemo"
    THEN ColorRotationDemo_ColorRotationModeLedValue(m, value)
    ELSE State_LedValue(m, value)

MorseCodeEdge(m, value) ==
    CASE m.state_ = "AirQualityAlarmMode" -> AirQualityAlarmMode_MorseCodeEdge(m, value)
      [] m.state_ = "MorseReadout" -> MorseReadout_MorseCodeEdge(m, value)
      [] m.state_ = "MorseCodeDemo" -> MorseCodeDemo_MorseCodeEdge(m, value)
      [] OTHER -> State_MorseCodeEdge(m, value)

DemoModeTimerExpiredHandler(m) ==
    IF m.state_ \in TimeoutModes
    THEN TimeoutState_DemoModeTimerExpired(m)
    ELSE State_DemoModeTimerExpired(m)

\* StateManager::HandleButtonPress: only a release reaches the mode
HandleButtonPress(m, pressed, kind) ==
    IF pressed THEN m
    ELSE CASE kind = "ButtonA" -> ButtonAReleased(m)
           [] kind = "ButtonB" -> ButtonBReleased(m)
           [] kind = "ButtonX" -> ButtonXReleased(m)
           [] kind = "ButtonY" -> ButtonYReleased(m)

\* StateManager::Update: routes the event to the active mode's handler
Update(m, event) ==
    CASE event.kind = "AlarmStateChange" -> AlarmStateChanged(m, event.flag)
      [] event.kind \in ButtonKinds -> HandleButtonPress(m, event.flag, event.kind)
      [] event.kind = "LedValueColorRotationMode" ->
            ColorRotationModeLedValue(m, event.value)
      [] event.kind = "LedValueProximityMode" -> ProximityModeLedValue(m, event.value)
      [] event.kind = "LedValueAirQualityMode" -> AirQualityModeLedValue(m, event.value)
      [] event.kind = "MorseCodeValue" -> MorseCodeEdge(m, event)
      [] event.kind = "DemoModeTimerExpired" -> DemoModeTimerExpiredHandler(m)
      [] OTHER -> m

----------------------------------------------------------------------------
\* Blinky: the blink coroutine, lock_ and the monochrome LED
\*
\* A record `b` is a Blinky: pc is the place of the BlinkLoop coroutine held
\* by blink_task_ ("none": no coroutine; "posted": posted, not yet run;
\* "wait_off" / "wait_on": suspended in co_await timer_.WaitFor; "done":
\* returned), lock_ is the holder of the mutex, rpc is the place of the thread
\* that calls the public methods. cycles and unlocked record what the loop did.

MaxBlinkCount == 3

\* uint32_t blinked wraps on overflow; its range is scaled down to this
BlinkedRange == 8

\* Blinky::Blinky, then Blinky::Init: the LED is off, there is no coroutine
BlinkyInit ==
    [pc |-> "none", blink_count |-> 0, blinked |-> 0, monochrome_led_ |-> FALSE,
     lock_ |-> "free", rpc |-> "idle", status |-> "none", is_idle |-> TRUE,
     cycles |-> 0, unlocked |-> FALSE]

\* std::lock_guard lock(lock_) and the end of its scope
Lock(b, who) == [b EXCEPT !.lock_ = who]

Unlock(b) == [b EXCEPT !.lock_ = "free"]

\* monochrome_led_->TurnOff() / TurnOn(), called by the coroutine
TurnOff(b) ==
    [b EXCEPT !.monochrome_led_ = FALSE,
              !.unlocked = @ \/ b.lock_ # "loop"]

TurnOn(b) ==
    [b EXCEPT !.monochrome_led_ = TRUE,
              !.unlocked = @ \/ b.lock_ # "loop",
              !.cycles = IF b.monochrome_led_ THEN @
                         ELSE IF @ > MaxBlinkCount THEN @ ELSE @ + 1]

\* The condition of the for loop of BlinkLoop
LoopContinuesCounted(b) == b.blinked < b.blink_count

LoopContinues(b) == b.blinked < b.blink_count \/ b.blink_count = 0

\* The places where the coroutine is not running on the dispatcher
Suspended == {"none", "posted", "wait_off", "wait_on", "done"}

----------------------------------------------------------------------------
\* The controller as a state machine

\* The StateManager the variables describe, about to handle an event
Mgr ==
    [state_ |-> state_, led_ |-> led_, demo_mode_timer_ |-> demo_mode_timer_,
     alarmed_ |-> alarmed_, current_threshold_ |-> current_threshold_,
     published |-> <<>>, ops |-> <<>>]

Apply(m) ==
    /\ state_' = m.state_
    /\ led_' = m.led_
    /\ demo_mode_timer_' = m.demo_mode_timer_
    /\ alarmed_' = m.alarmed_
    /\ current_threshold_' = m.current_threshold_
    /\ published' = m.published
    /\ ops' = m.ops
    /\ armed_for' = IF m.demo_mode_timer_.armed
                        /\ \A i \in 1..Len(m.ops) : m.ops[i][1] # "InvokeAfter"
                     THEN armed_for ELSE 0

NoOverride == [called |-> FALSE, color |-> NoColor, brightness |-> 0]

\* StateManager::StateManager: led_(led, kDefaultBrightness), then state_(*this)
\* constructs the first alternative, AirQualityMode, whose State constructor
\* writes the default brightness through to the LED; the timer is not armed.
Init ==
    /\ state_ = "AirQualityMode"
    /\ led_ = SetBrightness(
                LedOutputStateMachine(kDefaultBrightness, NoColor, 0),
                kDefaultBrightness)
    /\ demo_mode_timer_ = [armed |-> FALSE, left |-> 0]
    /\ alarmed_ = FALSE
    /\ current_threshold_ = kDefaultTheshold
    /\ published = <<>>
    /\ ops = <<>>
    /\ step = NoStep
    /\ x_run = <<>>
    /\ led_called = {}
    /\ last_override = NoOverride
    /\ last_written = [color |-> NoColor, brightness |-> kDefaultBrightness]
    /\ thr_calls = <<>>
    /\ armed_for = 0
    /\ blinky = BlinkyInit

LastThree(s) == IF Len(s) > 3 THEN SubSeq(s, Len(s) - 2, Len(s)) ELSE s

\* An event published by another component reaches StateManager::Update.
HandleEvent(event) ==
    /\ Apply(Update(Mgr, event))
    /\ step' = event
    /\ x_run' = IF event.kind = "ButtonX" /\ ~event.flag
                THEN LastThree(Append(x_run, state_))
                ELSE <<>>
    /\ UNCHANGED <<led_called, last_override, last_written, thr_calls, blinky>>

\* One second passes while the countdown is running.
Tick ==
    /\ demo_mode_timer_.armed
    /\ demo_mode_timer_.left > 0
    /\ demo_mode_timer_' = [demo_mode_timer_ EXCEPT !.left = @ - 1]
    /\ step' = TickStep
    /\ armed_for' = armed_for + 1
    /\ UNCHANGED <<state_, led_, alarmed_, current_threshold_, published, ops,
                   x_run, led_called, last_override, last_written, thr_calls,
                   blinky>>

\* The callback given to demo_mode_timer_: it publishes DemoModeTimerExpired,
\* which the bus delivers to Update.
TimerCallbackDirect(m) == SetState(m, "AirQualityMode")

TimerCallback(m) ==
    Update(Publish(m, DemoModeTimerExpired), DemoModeTimerExpired)

\* The countdown expires: the timer is no longer armed and runs its callback.
TimerExpired ==
    /\ demo_mode_timer_.armed
    /\ demo_mode_timer_.left = 0
    /\ Apply(TimerCallback(
         [Mgr EXCEPT !.demo_mode_timer_ = [armed |-> FALSE, left |-> 0]]))
    /\ step' = DemoModeTimerExpired
    /\ x_run' = <<>>
    /\ UNCHANGED <<led_called, last_override, last_written, thr_calls, blinky>>

Next ==
    \/ \E event \in ExternalEvents : HandleEvent(event)
    \/ Tick
    \/ TimerExpired

Spec == Init /\ [][Next]_vars

\* The timer service keeps running: a running countdown advances and an
\* elapsed one fires its callback.
FairSpec == Spec /\ WF_vars(Tick) /\ WF_vars(TimerExpired)

----------------------------------------------------------------------------
\* The output layer on its own, driven through its four public methods

LedStep(kind, value) == Ev(kind, FALSE, FALSE, value)

InitLed ==
    /\ \E b \in LedBrightnesses, c \in LedColors, hb \in LedBrightnesses :
          /\ led_ = LedOutputStateMachine(b, c, hb)
          /\ last_written = [color |-> NoColor, brightness |-> b]
    /\ state_ = "AirQualityMode"
    /\ demo_mode_timer_ = [armed |-> FALSE, left |-> 0]
    /\ alarmed_ = FALSE
    /\ current_threshold_ = kDefaultTheshold
    /\ published = <<>>
    /\ ops = <<>>
    /\ step = NoStep
    /\ x_run = <<>>
    /\ led_called = {}
    /\ last_override = NoOverride
    /\ thr_calls = <<>>
    /\ armed_for = 0
    /\ blinky = BlinkyInit

LedFrame ==
    UNCHANGED <<state_, demo_mode_timer_, alarmed_, current_threshold_,
                published, ops, x_run, thr_calls, armed_for, blinky>>

LedOverride(color, brightness) ==
    /\ led_' = Override(led_, color, brightness)
    /\ last_override' = [called |-> TRUE, color |-> color, brightness |-> brightness]
    /\ led_called' = led_called \cup {"Override"}
    /\ step' = LedStep("Override", color)
    /\ UNCHANGED last_written
    /\ LedFrame

LedEndOverride ==
    /\ led_' = EndOverride(led_)
    /\ led_called' = led_called \cup {"EndOverride"}
    /\ step' = LedStep("EndOverride", NoColor)
    /\ UNCHANGED <<last_override, last_written>>
    /\ LedFrame

LedSetColor(value) ==
    /\ led_' = SetColor(led_, value)
    /\ last_written' = [last_written EXCEPT !.color = value]
    /\ led_called' = led_called \cup {"SetColor"}
    /\ step' = LedStep("SetColor", value)
    /\ UNCHANGED last_override
    /\ LedFrame

LedSetBrightness(brightness) ==
    /\ led_' = SetBrightness(led_, brightness)
    /\ last_written' = [last_written EXCEPT !.brightness = brightness]
    /\ led_called' = led_called \cup {"SetBrightness"}
    /\ step' = LedStep("SetBrightness", NoColor)
    /\ UNCHANGED last_override
    /\ LedFrame

NextLed ==
    \/ \E c \in LedColors, b \in LedBrightnesses : LedOverride(c, b)
    \/ LedEndOverride
    \/ \E c \in LedColors : LedSetColor(c)
    \/ \E b \in LedBrightnesses : LedSetBrightness(b)

SpecLed == InitLed /\ [][NextLed]_vars

----------------------------------------------------------------------------
\* The threshold adjustment on its own: A and B releases only, with the calls
\* recorded

MaxCalls == 6

ThrFrame ==
    UNCHANGED <<x_run, led_called, last_override, last_written, blinky>>

ThrButton(kind, call) ==
    /\ Len(thr_calls) < MaxCalls
    /\ Apply(Update(Mgr, Ev(kind, FALSE, FALSE, NoColor)))
    /\ step' = Ev(kind, FALSE, FALSE, NoColor)
    /\ thr_calls' = IF state_ = "AirQualityThresholdMode"
                    THEN Append(thr_calls, call) ELSE thr_calls
    /\ ThrFrame

ThrButtonA == ThrButton("ButtonA", "increment")

ThrButtonB == ThrButton("ButtonB", "decrement")

NextThreshold == ThrButtonA \/ ThrButtonB

SpecThreshold == Init /\ [][NextThreshold]_vars

----------------------------------------------------------------------------
\* Blinky on its own: Blink calls, the coroutine's steps, the timer and a
\* concurrent IsIdle call

BlinkyFrame ==
    UNCHANGED <<state_, led_, demo_mode_timer_, alarmed_, current_threshold_,
                published, ops, step, x_run, led_called, last_override,
                last_written, thr_calls, armed_for>>

\* Blinky::Blink: Deregister() drops the coroutine of an earlier call (it
\* waits for a run of the task on the dispatcher to end), SetCoro installs a
\* new BlinkLoop and Post makes it runnable.
Blink(blink_count) ==
    /\ blinky.rpc = "idle"
    /\ blinky.pc \in Suspended
    /\ blinky' = [blinky EXCEPT !.pc = "posted", !.blink_count = blink_count,
                                !.blinked = 0, !.status = "none", !.cycles = 0]
    /\ BlinkyFrame

\* BlinkLoop: the loop condition, at the start and after each ++blinked
LoopTest ==
    /\ blinky.pc \in {"posted", "test"}
    /\ blinky' = [blinky EXCEPT !.pc = IF LoopContinues(blinky)
                                       THEN "lock_off" ELSE "lock_final"]
    /\ BlinkyFrame

\* BlinkLoop: std::lock_guard lock(lock_) of each of the three blocks
LoopLock ==
    /\ blinky.pc \in {"lock_off", "lock_on", "lock_final"}
    /\ blinky.lock_ = "free"
    /\ blinky' = [Lock(blinky, "loop") EXCEPT
                     !.pc = CASE blinky.pc = "lock_off" -> "turn_off"
                              [] blinky.pc = "lock_on" -> "turn_on"
                              [] blinky.pc = "lock_final" -> "final_off"]
    /\ BlinkyFrame

\* BlinkLoop: TurnOff(), end of the block, co_await timer_.WaitFor(interval)
LoopTurnOff ==
    /\ blinky.pc = "turn_off"
    /\ blinky' = [Unlock(TurnOff(blinky)) EXCEPT !.pc = "wait_off"]
    /\ BlinkyFrame

\* BlinkLoop: TurnOn(), end of the block, co_await timer_.WaitFor(interval)
LoopTurnOn ==
    /\ blinky.pc = "turn_on"
    /\ blinky' = [Unlock(TurnOn(blinky)) EXCEPT !.pc = "wait_on"]
    /\ BlinkyFrame

\* The timer the coroutine waits for fires: after the first wait the loop
\* goes on to the second block, after the second wait ++blinked runs.
WaitForDone ==
    \/ /\ blinky.pc = "wait_off"
       /\ blinky' = [blinky EXCEPT !.pc = "lock_on"]
       /\ BlinkyFrame
    \/ /\ blinky.pc = "wait_on"
       /\ blinky' = [blinky EXCEPT !.pc = "test",
                                   !.blinked = (@ + 1) % BlinkedRange]
       /\ BlinkyFrame

\* BlinkLoop: the final TurnOff(), end of the block, co_return OkStatus()
LoopReturn ==
    /\ blinky.pc = "final_off"
    /\ blinky' = [Unlock(TurnOff(blinky)) EXCEPT !.pc = "done", !.status = "OK"]
    /\ BlinkyFrame

\* Blinky::IsIdle on the calling thread: takes lock_ ...
IsIdleLock ==
    /\ blinky.rpc = "idle"
    /\ blinky.lock_ = "free"
    /\ blinky' = [Lock(blinky, "rpc") EXCEPT !.rpc = "IsIdle"]
    /\ BlinkyFrame

\* ... and returns !blink_task_.IsRegistered()
IsIdleReturn ==
    /\ blinky.rpc = "IsIdle"
    /\ blinky' = [Unlock(blinky) EXCEPT
                     !.rpc = "idle", !.is_idle = blinky.pc \in {"none", "done"}]
    /\ BlinkyFrame

NextBlinky ==
    \/ \E n \in 0..MaxBlinkCount : Blink(n)
    \/ LoopTest
    \/ LoopLock
    \/ LoopTurnOff
    \/ LoopTurnOn
    \/ WaitForDone
    \/ LoopReturn
    \/ IsIdleLock
    \/ IsIdleReturn

SpecBlinky == Init /\ [][NextBlinky]_vars

\* The dispatcher runs a runnable coroutine, the timer fires, IsIdle returns,
\* and a thread waiting for lock_ gets it when it is free again and again.
FairSpecBlinky ==
    /\ SpecBlinky
    /\ WF_vars(LoopTest)
    /\ SF_vars(LoopLock)
    /\ WF_vars(LoopTurnOff)
    /\ WF_vars(LoopTurnOn)
    /\ WF_vars(WaitForDone)
    /\ WF_vars(LoopReturn)
    /\ WF_vars(IsIdleReturn)

----------------------------------------------------------------------------
\* Properties

AlarmEv(alarm) == Ev("AlarmStateChange", alarm, FALSE, NoColor)

Released(kind) == Ev(kind, FALSE, FALSE, NoColor)

Called(name, arg) == \E i \in 1..Len(ops) : ops[i] = <<name, arg>>

\* C1: exactly one of the seven modes is active, and a completed
\* SetState<M>() leaves the controller in mode M with the countdown armed if M
\* is one of the four timeout-bearing modes and unarmed if M is AirQualityMode,
\* AirQualityAlarmMode or MorseReadout.
C1_SetStateLeavesModeAndTimer ==
    /\ state_ \in {"AirQualityMode", "AirQualityThresholdMode",
                   "AirQualityAlarmMode", "MorseReadout", "ProximityDemo",
                   "MorseCodeDemo", "ColorRotationDemo"}
    /\ \A i \in 1..Len(ops) :
          ops[i][1] = "emplace" =>
             /\ state_ = ops[i][2]
             /\ ops[i][2] \in {"AirQualityThresholdMode", "ProximityDemo",
                               "MorseCodeDemo", "ColorRotationDemo"}
                   => demo_mode_timer_.armed
             /\ ops[i][2] \in {"AirQualityMode", "AirQualityAlarmMode",
                               "MorseReadout"}
                   => ~demo_mode_timer_.armed

C1_Witness ==
    /\ Called("emplace", "MorseReadout")
    /\ Called("destroy", "ColorRotationDemo")
    /\ state_ = "MorseReadout"
    /\ ~demo_mode_timer_.armed

\* C2: an alarm-state-changed(true) event delivered in any mode other than
\* AirQualityAlarmMode moves the controller to AirQualityAlarmMode.
C2_AlarmAlwaysEntersAlarmMode ==
    [][(step' = AlarmEv(TRUE) /\ state_ # "AirQualityAlarmMode")
          => state_' = "AirQualityAlarmMode"]_vars

\* C3: an alarm-state-changed event whose flag equals the stored alarmed flag
\* changes nothing: no call is made, and the mode, the timer and the output
\* state stay as they were.
C3_SameAlarmFlagIsNoOp ==
    [][(step' = AlarmEv(alarmed_))
          => /\ ops' = <<>>
             /\ published' = <<>>
             /\ UNCHANGED <<state_, demo_mode_timer_, led_, alarmed_,
                            current_threshold_>>]_vars

C3_Witness ==
    /\ step = AlarmEv(TRUE)
    /\ alarmed_
    /\ ops = <<>>
    /\ state_ = "AirQualityThresholdMode"
    /\ demo_mode_timer_.armed

\* C4: alarm-state-changed(true) delivered in a timeout-bearing demo mode
\* enters AirQualityAlarmMode with the timer canceled, and an
\* alarm-state-changed(false) delivered in AirQualityAlarmMode goes to
\* AirQualityMode.
C4_AlarmInDemoModeEntersAlarmMode ==
    [][/\ (step' = AlarmEv(TRUE)
             /\ state_ \in {"ProximityDemo", "MorseCodeDemo", "ColorRotationDemo"})
          => (state_' = "AirQualityAlarmMode" /\ ~demo_mode_timer_'.armed)
       /\ (step' = AlarmEv(FALSE) /\ state_ = "AirQualityAlarmMode")
          => state_' = "AirQualityMode"]_vars

Min(a, b) == IF a < b THEN a ELSE b

Max(a, b) == IF a > b THEN a ELSE b

RECURSIVE Clamped(_, _)
Clamped(start, calls) ==
    IF calls = <<>> THEN start
    ELSE LET t == Clamped(start, SubSeq(calls, 1, Len(calls) - 1))
         IN  IF calls[Len(calls)] = "increment"
             THEN Min(t + 128, 768) ELSE Max(t - 128, 0)

Increments(n) == [i \in 1..n |-> "increment"]

\* C6: increment sets the threshold to min(t + 128, 768) and decrement to
\* max(t - 128, 0), never wrapping; from the default, 4 increments reach 768
\* and a 5th changes nothing.
C6_ClampedNoWrap ==
    /\ current_threshold_ = Clamped(kDefaultTheshold, thr_calls)
    /\ thr_calls = Increments(4) => current_threshold_ = 768
    /\ thr_calls = Increments(5) => current_threshold_ = 768

C6_Witness ==
    /\ thr_calls = Increments(5)
    /\ current_threshold_ = 768

\* C7: X released cycles ProximityDemo -> MorseCodeDemo -> ColorRotationDemo
\* -> ProximityDemo, so three consecutive X releases from a demo mode return
\* to it.
C7_DemoCycle ==
    /\ (step = Released("ButtonX") /\ x_run # <<>>) =>
          LET from == x_run[Len(x_run)]
          IN  /\ from = "ProximityDemo" => state_ = "MorseCodeDemo"
              /\ from = "MorseCodeDemo" => state_ = "ColorRotationDemo"
              /\ from = "ColorRotationDemo" => state_ = "ProximityDemo"
    /\ (Len(x_run) = 3
          /\ x_run[1] \in {"ProximityDemo", "MorseCodeDemo", "ColorRotationDemo"})
          => state_ = x_run[1]

C7_Witness ==
    /\ Len(x_run) = 3
    /\ x_run[1] = "MorseCodeDemo"
    /\ state_ = "MorseCodeDemo"

TimerQuiet ==
    /\ state_ \in {"AirQualityThresholdMode", "ProximityDemo", "MorseCodeDemo",
                   "ColorRotationDemo"}
    /\ demo_mode_timer_.armed
    /\ step.kind \notin {"AlarmStateChange", "ButtonA", "ButtonB", "ButtonX", "ButtonY"}

\* C8: in a timeout-bearing mode with the countdown running, either a button
\* or alarm event is delivered, or the countdown expires and the
\* demo-timer-expired event moves the controller to AirQualityMode.
C8_TimeoutReturnsToAirQualityMode ==
    TimerQuiet ~>
        \/ step.kind \in {"AlarmStateChange", "ButtonA", "ButtonB", "ButtonX", "ButtonY"}
        \/ (step = DemoModeTimerExpired /\ state_ = "AirQualityMode")

C8_Witness ==
    /\ step = DemoModeTimerExpired
    /\ state_ = "AirQualityMode"
    /\ Called("destroy", "AirQualityThresholdMode")
    /\ ~demo_mode_timer_.armed

\* C9: a morse edge changes the mode only in MorseReadout with
\* message_finished set (to AirQualityMode); in MorseCodeDemo and
\* AirQualityAlarmMode it only sets the brightness (default when on, 0 when
\* off); in the other four modes it changes nothing.
C9_MorseEdgeModeScoped ==
    [][(step'.kind = "MorseCodeValue") =>
          /\ state_' # state_ =>
                (state_ = "MorseReadout" /\ step'.finished
                    /\ state_' = "AirQualityMode")
          /\ (state_ = "MorseReadout" /\ step'.finished)
                => state_' = "AirQualityMode"
          /\ state_ \in {"MorseCodeDemo", "AirQualityAlarmMode"} =>
                /\ led_' = [led_ EXCEPT
                              !.brightness_ = IF step'.flag THEN 220 ELSE 0,
                              !.led_brightness = IF step'.flag THEN 220 ELSE 0]
                /\ published' = <<>>
                /\ UNCHANGED <<state_, demo_mode_timer_, alarmed_,
                               current_threshold_>>
          /\ state_ \in {"AirQualityMode", "AirQualityThresholdMode",
                         "ProximityDemo", "ColorRotationDemo"} =>
                /\ ops' = <<>>
                /\ published' = <<>>
                /\ UNCHANGED <<state_, led_, demo_mode_timer_, alarmed_,
                               current_threshold_>>]_vars

C9_Witness ==
    /\ step.kind = "MorseCodeValue"
    /\ step.finished
    /\ ~step.flag
    /\ state_ = "MorseCodeDemo"
    /\ led_.brightness_ = 0

\* C10: writes made during an override are remembered but not shown; while
\* overridden the LED keeps the override colour and brightness; after
\* EndOverride() the LED shows the last colour and brightness written.
C10_OverrideKeepsWrites ==
    /\ StoredColor(led_) = last_written.color
    /\ led_.brightness_ = last_written.brightness
    /\ led_.state_ = "kOverride" =>
          /\ led_.led_color = last_override.color
          /\ led_.led_brightness = last_override.brightness
    /\ step.kind = "EndOverride" =>
          /\ led_.state_ = "kPassthrough"
          /\ led_.led_color = last_written.color
          /\ led_.led_brightness = last_written.brightness

C10_Witness ==
    /\ step.kind = "EndOverride"
    /\ {"Override", "SetColor", "SetBrightness"} \subseteq led_called
    /\ last_written.color # last_override.color
    /\ last_written.brightness # last_override.brightness
    /\ led_.led_color = last_written.color
    /\ led_.led_brightness = last_written.brightness

\* C11 as stated: EndOverride() called in passthrough state changes nothing
\* of the output layer (flag, stored values, values shown), in every reachable
\* state including the freshly constructed one.
C11_EndOverrideInPassthroughIsNoOp ==
    [][(step'.kind = "EndOverride" /\ led_.state_ = "kPassthrough")
          => UNCHANGED led_]_vars

\* C11, amended: EndOverride() called in passthrough state changes nothing of
\* the output layer once SetColor, SetBrightness or EndOverride has been
\* called before.
C11_EndOverrideNoOpOnceWritten ==
    [][(/\ step'.kind = "EndOverride"
        /\ led_.state_ = "kPassthrough"
        /\ led_called \cap {"SetColor", "SetBrightness", "EndOverride"} # {})
          => UNCHANGED led_]_vars

C11_Witness ==
    /\ step.kind = "EndOverride"
    /\ led_called = {"SetColor", "EndOverride"}
    /\ led_.state_ = "kPassthrough"
    /\ led_.led_color = <<255, 0, 0>>
    /\ StoredColor(led_) = <<255, 0, 0>>

\* C12: no event is delivered to a subscriber while a SetState is in progress
\* (between the Cancel of the timer and the end of the new mode's
\* construction), and handling one event changes the mode at most once.
C12_TransitionAtomic ==
    /\ \A i, j, k \in 1..Len(ops) :
          (i < j /\ j < k /\ ops[i][1] = "Cancel" /\ ops[k][1] = "emplace")
             => ops[j][1] # "Deliver"
    /\ Cardinality({i \in 1..Len(ops) : ops[i][1] = "emplace"}) <= 1

\* C13: the countdown's expiry callback does not change the mode itself: it
\* publishes demo-timer-expired, and the mode changes only inside the handling
\* of a delivered event (never on a tick, and on expiry only after the
\* delivery of demo-timer-expired).
C13_ExpiryOnlyPublishes ==
    [][/\ state_' # state_ =>
             /\ step'.kind # "Tick"
             /\ \E i \in 1..Len(ops') : ops'[i] = <<"emplace", state_'>>
       /\ step' = DemoModeTimerExpired =>
             /\ Len(ops') >= 2
             /\ ops'[1] = <<"Publish", "DemoModeTimerExpired">>
             /\ ops'[2] = <<"Deliver", "DemoModeTimerExpired">>
             /\ published' = <<DemoModeTimerExpired>>]_vars

C13_Witness ==
    /\ step = DemoModeTimerExpired
    /\ ops[1] = <<"Publish", "DemoModeTimerExpired">>
    /\ Called("destroy", "ProximityDemo")
    /\ state_ = "AirQualityMode"

\* The timeout a mode arms the countdown with, in seconds
TimeoutOf(mode) == IF mode = "AirQualityThresholdMode" THEN 3 ELSE 30

\* C14: an armed countdown belongs to the active mode: the mode is
\* timeout-bearing and the countdown was armed for that mode's timeout, by
\* that mode; every transition cancels the timer before the new mode arms it;
\* and an expiry finds the mode whose full timeout has just run.
C14_TimerBelongsToActiveMode ==
    /\ [](demo_mode_timer_.armed =>
             /\ state_ \in {"AirQualityThresholdMode", "ProximityDemo",
                            "MorseCodeDemo", "ColorRotationDemo"}
             /\ armed_for + demo_mode_timer_.left = TimeoutOf(state_))
    /\ [](\A k \in 1..Len(ops) : ops[k][1] = "emplace" =>
             \E i \in 1..(k - 1) :
                /\ ops[i][1] = "Cancel"
                /\ \A j \in 1..k : ops[j][1] = "InvokeAfter" => i < j)
    /\ [][step' = DemoModeTimerExpired =>
             /\ state_ \in {"AirQualityThresholdMode", "ProximityDemo",
                            "MorseCodeDemo", "ColorRotationDemo"}
             /\ armed_for = TimeoutOf(state_)
             /\ state_' = "AirQualityMode"]_vars

C14_Witness ==
    /\ state_ = "AirQualityThresholdMode"
    /\ Called("destroy", "ColorRotationDemo")
    /\ demo_mode_timer_ = [armed |-> TRUE, left |-> 1]
    /\ armed_for = 2

\* Places in the calls of the last handled event
HasTransition == \E i \in 1..Len(ops) : ops[i][1] = "Cancel"

Pos(name) == CHOOSE i \in 1..Len(ops) : ops[i][1] = name

\* The calls of the new mode's entry action
EntryOps ==
    {i \in 1..Len(ops) :
        /\ i > Pos("Cancel")
        /\ ops[i][1] \in {"InvokeAfter", "SetColor", "Publish", "Deliver",
                          "DisplayThreshold"}}

\* C15 as stated: SetState cancels the timer, destroys the mode, constructs
\* the new mode (entry action), then resets the brightness, then logs; the
\* stored brightness is the default after every transition.
C15_ResetAfterEntryAction ==
    HasTransition =>
       /\ \E b \in 1..Len(ops) :
             /\ ops[b][1] = "SetBrightness"
             /\ Pos("Cancel") < Pos("destroy")
             /\ Pos("destroy") < b
             /\ \A e \in EntryOps : e < b
             /\ b < Pos("LogStateChange")
       /\ led_.brightness_ = 220

\* C15, amended: SetState cancels the timer, destroys the mode, constructs the
\* new mode, whose State base constructor resets the brightness before the
\* entry action runs, then logs; the stored brightness is the default after
\* every transition.
C15_ResetBeforeEntryAction ==
    HasTransition =>
       /\ \E b \in 1..Len(ops) :
             /\ ops[b][1] = "SetBrightness"
             /\ Pos("Cancel") < Pos("destroy")
             /\ Pos("destroy") < b
             /\ \A e \in EntryOps : b < e /\ e < Pos("emplace")
             /\ b < Pos("emplace")
             /\ Pos("emplace") < Pos("LogStateChange")
             /\ Pos("LogStateChange") = Len(ops)
       /\ led_.brightness_ = 220

C15_Witness ==
    /\ state_ = "MorseCodeDemo"
    /\ ops = << <<"Cancel", "">>, <<"destroy", "ProximityDemo">>,
                <<"SetBrightness", "">>, <<"InvokeAfter", "">>,
                <<"SetColor", "">>, <<"Publish", "MorseEncodeRequest">>,
                <<"Deliver", "MorseEncodeRequest">>,
                <<"emplace", "MorseCodeDemo">>,
                <<"LogStateChange", "ProximityDemo">> >>
    /\ led_.brightness_ = 220

\* C16: a button-A or button-B event takes the default transition to
\* AirQualityThresholdMode exactly when it reports a release and the active
\* mode is not AirQualityThresholdMode; an event with pressed = true never
\* changes the mode, the threshold or the timer.
C16_DefaultTransitionOnReleaseOnly ==
    [][step'.kind \in {"ButtonA", "ButtonB"} =>
          /\ (\E i \in 1..Len(ops') :
                 ops'[i] = <<"emplace", "AirQualityThresholdMode">>)
             <=> (~step'.flag /\ state_ # "AirQualityThresholdMode")
          /\ (~step'.flag /\ state_ # "AirQualityThresholdMode")
             => state_' = "AirQualityThresholdMode"
          /\ step'.flag
             => UNCHANGED <<state_, current_threshold_, demo_mode_timer_>>]_vars

C16_Witness ==
    /\ step = Released("ButtonB")
    /\ Called("destroy", "ColorRotationDemo")
    /\ Called("emplace", "AirQualityThresholdMode")
    /\ state_ = "AirQualityThresholdMode"

\* C17: the only transition out of AirQualityAlarmMode is the one caused by
\* the alarm being cleared (to AirQualityMode); Y released in
\* AirQualityAlarmMode only publishes alarm-silence-request with seconds = 60.
C17_AlarmModeLeftOnlyByClear ==
    [][state_ = "AirQualityAlarmMode" =>
          /\ state_' # state_
             => (step' = AlarmEv(FALSE) /\ state_' = "AirQualityMode")
          /\ step' = Released("ButtonY")
             => /\ published' = <<AlarmSilenceRequest(60)>>
                /\ UNCHANGED <<state_, led_, demo_mode_timer_, alarmed_,
                               current_threshold_>>]_vars

\* The led-value kind each mode displays
Displays(mode) ==
    CASE mode \in {"AirQualityMode", "AirQualityAlarmMode"} ->
            {"LedValueAirQualityMode"}
      [] mode = "ProximityDemo" -> {"LedValueProximityMode"}
      [] mode = "ColorRotationDemo" -> {"LedValueColorRotationMode"}
      [] OTHER -> {}

\* C18: a led-value event tagged for another producer than the one the active
\* mode displays, and proximity-state and proximity-sample events, leave the
\* active mode, the stored output color and brightness, the timer and the
\* threshold unchanged.
C18_UnhandledKindIsNoOp ==
    [][(\/ step'.kind \in LedValueKinds \ Displays(state_)
        \/ step'.kind \in {"ProximityStateChange", "ProximitySample"})
       => /\ UNCHANGED <<state_, led_, demo_mode_timer_, alarmed_,
                         current_threshold_>>
          /\ ops' = <<>>
          /\ published' = <<>>]_vars

C18_Witness ==
    /\ step.kind = "LedValueProximityMode"
    /\ state_ = "ColorRotationDemo"
    /\ StoredColor(led_) # step.value
    /\ ops = <<>>

\* C19: in AirQualityThresholdMode a button-A or button-B release keeps the
\* mode without re-entering it or resetting the brightness, adjusts the
\* threshold by one clamped step and re-arms the countdown to the full 3 s,
\* also at the bound; the mode times out only 3 s after the last re-arming.
C19_AdjustKeepsModeAndRearms ==
    [][state_ = "AirQualityThresholdMode" =>
          /\ step' \in {Released("ButtonA"), Released("ButtonB")}
             => /\ state_' = "AirQualityThresholdMode"
                /\ \A i \in 1..Len(ops') :
                      ops'[i][1] \notin {"Cancel", "destroy", "emplace",
                                         "SetBrightness", "LogStateChange"}
                /\ led_' = led_
                /\ current_threshold_' =
                      IF step'.kind = "ButtonA"
                      THEN Min(current_threshold_ + kThresholdIncrement,
                               kMaxThreshold)
                      ELSE Max(current_threshold_ - kThresholdIncrement, 0)
                /\ demo_mode_timer_' =
                      [armed |-> TRUE, left |-> kThresholdModeTimeout]
                /\ armed_for' = 0
          /\ step' = DemoModeTimerExpired
             => /\ armed_for = kThresholdModeTimeout
                /\ state_' = "AirQualityMode"]_vars

C19_Witness ==
    /\ step = Released("ButtonA")
    /\ state_ = "AirQualityThresholdMode"
    /\ ops = << <<"IncrementThreshold", "">>, <<"DisplayThreshold", "">>,
                <<"InvokeAfter", "">> >>
    /\ current_threshold_ = kMaxThreshold
    /\ demo_mode_timer_ = [armed |-> TRUE, left |-> kThresholdModeTimeout]
    /\ armed_for = 0

\* C20: every event the controller publishes (demo-timer-expired,
\* alarm-silence-request, morse-encode-request) is a member of the Event sum
\* type carried by the bus.
C20_PublishedKindsInEventSet ==
    \A i \in 1..Len(published) : published[i].kind \in EventAlternatives

\* C21: whenever the active mode is AirQualityAlarmMode the stored alarmed
\* flag is true, and the stored alarmed flag equals the payload of the most
\* recent alarm-state-changed event delivered (false before any).
C21_AlarmedTracksLastAlarmEvent ==
    /\ [](state_ = "AirQualityAlarmMode" => alarmed_)
    /\ [](step = NoStep => ~alarmed_)
    /\ [][IF step'.kind = "AlarmStateChange"
          THEN alarmed_' = step'.flag
          ELSE alarmed_' = alarmed_]_vars

C21_Witness ==
    /\ step = AlarmEv(TRUE)
    /\ Called("destroy", "AirQualityThresholdMode")
    /\ state_ = "AirQualityAlarmMode"
    /\ alarmed_

\* C22: once SetColor, SetBrightness or EndOverride has been called, whenever
\* the flag is passthrough the colour and brightness applied to the LED equal
\* the stored ones, and whenever the flag is override they equal the arguments
\* of the most recent Override call.
C22_LedShowsStoredOrOverride ==
    led_called \cap {"SetColor", "SetBrightness", "EndOverride"} # {} =>
       /\ led_.state_ = "kPassthrough" =>
             /\ led_.led_color = StoredColor(led_)
             /\ led_.led_brightness = led_.brightness_
       /\ led_.state_ = "kOverride" =>
             /\ last_override.called
             /\ led_.led_color = last_override.color
             /\ led_.led_brightness = last_override.brightness

C22_Witness ==
    /\ step.kind = "SetBrightness"
    /\ led_.state_ = "kOverride"
    /\ {"Override", "EndOverride", "SetColor"} \subseteq led_called
    /\ led_.led_brightness # led_.brightness_
    /\ led_.led_color # StoredColor(led_)
    /\ led_.led_color = last_override.color

\* C23: BlinkLoop with blink_count = n > 0 performs exactly n off-then-on
\* cycles, then turns the monochrome LED off and completes with OK; with
\* blink_count = 0 it never completes; every access of the loop to the LED is
\* made while holding lock_, and lock_ is not held across a timer wait.
C23_BlinkLoopCyclesAndLock ==
    /\ [](blinky.pc = "done" =>
             /\ blinky.status = "OK"
             /\ blinky.blink_count > 0
             /\ blinky.cycles = blinky.blink_count
             /\ blinky.blinked = blinky.blink_count
             /\ ~blinky.monochrome_led_)
    /\ [](blinky.status = "OK" => blinky.pc = "done")
    /\ [](blinky.blink_count = 0 =>
             blinky.pc \notin {"lock_final", "final_off", "done"})
    /\ [](~blinky.unlocked)
    /\ [](blinky.pc \in {"turn_off", "turn_on", "final_off"}
             <=> blinky.lock_ = "loop")
    /\ [](blinky.pc \in {"wait_off", "wait_on"} => blinky.lock_ # "loop")
    /\ (blinky.blink_count > 0 /\ blinky.pc \notin {"none", "posted", "done"})
          ~> (blinky.pc \in {"done", "posted"})

C23_Witness ==
    /\ blinky.pc = "done"
    /\ blinky.blink_count = MaxBlinkCount
    /\ blinky.cycles = MaxBlinkCount
    /\ blinky.status = "OK"
    /\ blinky.rpc = "IsIdle"

====
